---------------------------- MODULE Spec2Model ----------------------------
(***************************************************************************)
(* Model of the fetch-based Yahoo Finance MCP route                        *)
(* (src/app/[transport]/route.ts, second half): the process-wide request   *)
(* budget (requestCount / checkRateLimit), the retry loop fetchWithRetry,  *)
(* and the three tool handlers yahoo_stock_quote, yahoo_market_data and    *)
(* yahoo_stock_history.                                                    *)
(*                                                                         *)
(* Time is the value of Date.now() in milliseconds.  Texts are sequences   *)
(* of string pieces, in the order the template literals concatenate them.  *)
(***************************************************************************)
EXTENDS Integers, Sequences, FiniteSets, TLC

(***************************************************************************)
(* Bounds of the model.                                                    *)
(***************************************************************************)
\* RATE_LIMIT.perMinute and RATE_LIMIT.perDay are 20 and 500 in the source;
\* the model runs the same code with smaller capacities.
PerMinute == 2
PerDay == 4
\* The clock readings the model visits: d days + k minutes + s ms after load.
MaxDays == 1
MaxMinutes == 2
MaxSkew == 2

(***************************************************************************)
(* Program constants.                                                      *)
(***************************************************************************)
MinuteWindow == 60000
DayWindow == 86400000

RATE_LIMIT == [perMinute |-> PerMinute, perDay |-> PerDay]

RateLimitMessage == "Rate limit exceeded. Please try again later."

VARIABLES
    now,           \* Date.now()
    requestCount,  \* the module-level requestCount object
    lastCheck,     \* history: the latest checkRateLimit() call
    win            \* history: the calls since the minute window last started

budgetVars == <<now, requestCount, lastCheck, win>>

Min(a, b) == IF a <= b THEN a ELSE b

Instants ==
    { d * DayWindow + k * MinuteWindow + s :
        d \in 0..MaxDays, k \in 0..MaxMinutes, s \in 0..MaxSkew }

(***************************************************************************)
(* checkRateLimit(): the requestCount it leaves and whether it threw.      *)
(***************************************************************************)
\* Variant: `requestCount.minute > RATE_LIMIT.perMinute`.
checkRateLimit_minuteOffByOne(rc, t) ==
    LET r1 == IF t - rc.lastMinuteReset > MinuteWindow
              THEN [rc EXCEPT !.minute = 0, !.lastMinuteReset = t]
              ELSE rc
        r2 == IF t - r1.lastDayReset > DayWindow
              THEN [r1 EXCEPT !.day = 0, !.lastDayReset = t]
              ELSE r1
    IN  IF r2.minute > RATE_LIMIT.perMinute \/ r2.day >= RATE_LIMIT.perDay
        THEN [requestCount |-> r2, threw |-> TRUE]
        ELSE [requestCount |-> [r2 EXCEPT !.minute = @ + 1, !.day = @ + 1],
              threw |-> FALSE]

\* Variant: the counts are incremented before the capacity test.
checkRateLimit_countsRejected(rc, t) ==
    LET r1 == IF t - rc.lastMinuteReset > MinuteWindow
              THEN [rc EXCEPT !.minute = 0, !.lastMinuteReset = t]
              ELSE rc
        r2 == IF t - r1.lastDayReset > DayWindow
              THEN [r1 EXCEPT !.day = 0, !.lastDayReset = t]
              ELSE r1
        r3 == [r2 EXCEPT !.minute = @ + 1, !.day = @ + 1]
    IN  IF r2.minute >= RATE_LIMIT.perMinute \/ r2.day >= RATE_LIMIT.perDay
        THEN [requestCount |-> [r3 EXCEPT !.minute = Min(@, PerMinute + 1),
                                          !.day = Min(@, PerDay + 1)],
              threw |-> TRUE]
        ELSE [requestCount |-> r3, threw |-> FALSE]

\* Variant: the minute window is never reset.
checkRateLimit_noMinuteReset(rc, t) ==
    LET r2 == IF t - rc.lastDayReset > DayWindow
              THEN [rc EXCEPT !.day = 0, !.lastDayReset = t]
              ELSE rc
    IN  IF r2.minute >= RATE_LIMIT.perMinute \/ r2.day >= RATE_LIMIT.perDay
        THEN [requestCount |-> r2, threw |-> TRUE]
        ELSE [requestCount |-> [r2 EXCEPT !.minute = @ + 1, !.day = @ + 1],
              threw |-> FALSE]

\* Variant: both capacity tests use > in place of >=.
checkRateLimit_bothOffByOne(rc, t) ==
    LET r1 == IF t - rc.lastMinuteReset > MinuteWindow
              THEN [rc EXCEPT !.minute = 0, !.lastMinuteReset = t]
              ELSE rc
        r2 == IF t - r1.lastDayReset > DayWindow
              THEN [r1 EXCEPT !.day = 0, !.lastDayReset = t]
              ELSE r1
    IN  IF r2.minute > RATE_LIMIT.perMinute \/ r2.day > RATE_LIMIT.perDay
        THEN [requestCount |-> r2, threw |-> TRUE]
        ELSE [requestCount |-> [r2 EXCEPT !.minute = @ + 1, !.day = @ + 1],
              threw |-> FALSE]

\* Variant: a reset of the minute window resets the day window with it.
checkRateLimit_resetsBoth(rc, t) ==
    LET r1 == IF t - rc.lastMinuteReset > MinuteWindow
              THEN [rc EXCEPT !.minute = 0, !.lastMinuteReset = t,
                              !.day = 0, !.lastDayReset = t]
              ELSE rc
        r2 == IF t - r1.lastDayReset > DayWindow
              THEN [r1 EXCEPT !.day = 0, !.lastDayReset = t]
              ELSE r1
    IN  IF r2.minute >= RATE_LIMIT.perMinute \/ r2.day >= RATE_LIMIT.perDay
        THEN [requestCount |-> r2, threw |-> TRUE]
        ELSE [requestCount |-> [r2 EXCEPT !.minute = @ + 1, !.day = @ + 1],
              threw |-> FALSE]

\* function checkRateLimit() called when Date.now() is t.
checkRateLimit(rc, t) ==
    LET r1 == IF t - rc.lastMinuteReset > MinuteWindow
              THEN [rc EXCEPT !.minute = 0, !.lastMinuteReset = t]
              ELSE rc
        r2 == IF t - r1.lastDayReset > DayWindow
              THEN [r1 EXCEPT !.day = 0, !.lastDayReset = t]
              ELSE r1
    IN  IF r2.minute >= RATE_LIMIT.perMinute \/ r2.day >= RATE_LIMIT.perDay
        THEN [requestCount |-> r2, threw |-> TRUE]
        ELSE [requestCount |-> [r2 EXCEPT !.minute = @ + 1, !.day = @ + 1],
              threw |-> FALSE]

(***************************************************************************)
(* History of the budget: what the latest call saw and did, and how many   *)
(* calls the current minute window has had (counted up to PerMinute + 1),  *)
(* and how many the current day window accepted (up to PerDay + 1).  When   *)
(* recording is on, recent holds the times of the calls accepted in the    *)
(* 60 000 ms up to the latest call (the last 2 * PerMinute + 1 of them).   *)
(***************************************************************************)
NoCheck ==
    [called |-> FALSE, at |-> 0, threw |-> FALSE,
     pre |-> [minute |-> 0, day |-> 0, lastMinuteReset |-> 0, lastDayReset |-> 0]]

FreshWindow ==
    [calls |-> 0, accepted |-> 0, dayFull |-> FALSE, first |-> TRUE, dayAccepted |-> 0,
     recording |-> FALSE, recent |-> <<>>]

\* The last n elements of a sequence.
LastN(s, n) == IF Len(s) <= n THEN s ELSE SubSeq(s, Len(s) - n + 1, Len(s))

\* The window history after a call at time t that took requestCount from rc
\* to res.requestCount: a call that moved lastMinuteReset starts a new window.
WinAfter(w, rc, res, t) ==
    LET post == res.requestCount
        started == post.lastMinuteReset # rc.lastMinuteReset
        base == IF started
                THEN [calls |-> 0, accepted |-> 0, dayFull |-> FALSE, first |-> FALSE]
                ELSE w
        dayBase == IF post.lastDayReset # rc.lastDayReset THEN 0 ELSE w.dayAccepted
    IN  [calls    |-> Min(base.calls + 1, PerMinute + 1),
         accepted |-> Min(base.accepted + (IF res.threw THEN 0 ELSE 1), PerMinute + 1),
         dayFull  |-> base.dayFull \/ (res.threw /\ post.day >= RATE_LIMIT.perDay),
         first    |-> base.first,
         dayAccepted |-> Min(dayBase + (IF res.threw THEN 0 ELSE 1), PerDay + 1),
         recording |-> w.recording,
         recent   |-> LET kept == SelectSeq(w.recent, LAMBDA u : t - u <= MinuteWindow)
                      IN  IF ~w.recording THEN <<>>
                          ELSE IF res.threw THEN kept
                          ELSE LastN(Append(kept, t), 2 * PerMinute + 1)]

BudgetInit ==
    /\ requestCount = [minute |-> 0, day |-> 0,
                       lastMinuteReset |-> 0, lastDayReset |-> 0]
    /\ now = 0
    /\ lastCheck = NoCheck
    /\ win = FreshWindow

\* Date.now() moves on between two steps of the program.
Tick ==
    /\ \E t \in Instants : t > now /\ now' = t
    /\ UNCHANGED <<requestCount, lastCheck, win>>

\* The budget part of a step that calls checkRateLimit() at the current time.
BudgetCall(res) ==
    /\ requestCount' = res.requestCount
    /\ lastCheck' = [called |-> TRUE, at |-> now, threw |-> res.threw,
                     pre |-> requestCount]
    /\ win' = WinAfter(win, requestCount, res, now)
    /\ UNCHANGED now


(***************************************************************************)
(* fetchWithRetry(url, options, maxRetries = 3).                           *)
(*                                                                         *)
(* One run of it is a record:                                              *)
(*   pc         "fetch"  suspended at `await fetch(url, options)`          *)
(*              "sleep"  suspended at `await new Promise(setTimeout)`      *)
(*              "returned" / "threw"  the run is over                      *)
(*   retries, lastError, maxRetries   the function's locals and parameter  *)
(*   status     the status of the response it returned (0: none)           *)
(*   error      the message of the error it threw                          *)
(* and, as history of what it did and of what the transport did:           *)
(*   attempts   the number of fetch() calls it made                        *)
(*   waits      the setTimeout delays it started, in order                 *)
(*   lastFault  the latest network fault the transport raised (or Null)    *)
(*   n429       the number of 429 responses the transport gave             *)
(*   lastOutcome  the latest outcome of a fetch() call: "none", "fault",   *)
(*              or the status of the response, as a string                 *)
(***************************************************************************)
Null == "<null>"

DefaultMaxRetries == 3

MaxRetriesMessage == "Maximum retries exceeded"

\* The message of the network fault that the n-th fetch() call of a run
\* rejects with: no two faults of a run carry the same message.
FaultMessage(n) == "fetch failed (call " \o ToString(n) \o ")"
FaultMessages == {FaultMessage(n) : n \in 1..DefaultMaxRetries + 1}

\* Response statuses the upstream gives, 429 among them.
TooManyRequests == 429
OtherStatuses == {200, 404, 500}
IsOk(s) == s >= 200 /\ s <= 299

RECURSIVE Pow2(_)
Pow2(n) == IF n = 0 THEN 1 ELSE 2 * Pow2(n - 1)

\* Variant: a delay that grows linearly.
waitTime_linear(retries) == (retries + 1) * 1000

\* const waitTime = Math.pow(2, retries) * 1000
waitTime(retries) == Pow2(retries) * 1000

NewFetch(maxRetries) ==
    [pc |-> "start", retries |-> 0, lastError |-> Null, maxRetries |-> maxRetries,
     status |-> 0, error |-> Null,
     attempts |-> 0, waits |-> <<>>, lastFault |-> Null, n429 |-> 0,
     lastOutcome |-> "none"]

\* Variant: `while (retries <= maxRetries)`.
LoopHead_oneMore(f) ==
    IF f.retries <= f.maxRetries
    THEN [f EXCEPT !.pc = "fetch", !.attempts = @ + 1]
    ELSE [f EXCEPT !.pc = "threw",
                   !.error = IF f.lastError # Null THEN f.lastError
                             ELSE MaxRetriesMessage]

\* The head of `while (retries < maxRetries)`: the next fetch() call, or the
\* `throw lastError || new Error("Maximum retries exceeded")` after the loop.
LoopHead(f) ==
    IF f.retries < f.maxRetries
    THEN [f EXCEPT !.pc = "fetch", !.attempts = @ + 1]
    ELSE [f EXCEPT !.pc = "threw",
                   !.error = IF f.lastError # Null THEN f.lastError
                             ELSE MaxRetriesMessage]

\* Variant: the 429 branch records an error of its own in lastError.
On429_recordsError(f) ==
    [f EXCEPT !.pc = "sleep", !.waits = Append(@, waitTime(f.retries)),
              !.lastError = "Rate limited",
              !.n429 = @ + 1, !.lastOutcome = ToString(TooManyRequests)]

\* fetch() resolved with status 429: start the backoff timer.
On429(f) ==
    [f EXCEPT !.pc = "sleep", !.waits = Append(@, waitTime(f.retries)),
              !.n429 = @ + 1, !.lastOutcome = ToString(TooManyRequests)]

\* fetch() rejected with a network fault: the catch block.
OnFault(f, e) ==
    [f EXCEPT !.pc = "sleep", !.lastError = e,
              !.waits = Append(@, waitTime(f.retries)),
              !.lastFault = e, !.lastOutcome = "fault"]

\* Variant: a 5xx response is backed off and retried like a 429.
OnResponse_retriesServerError(f, s) ==
    IF s >= 500
    THEN [f EXCEPT !.pc = "sleep", !.waits = Append(@, waitTime(f.retries)),
                   !.lastOutcome = ToString(s)]
    ELSE [f EXCEPT !.pc = "returned", !.status = s, !.lastOutcome = ToString(s)]

\* fetch() resolved with any other status: `return response`.
OnResponse(f, s) ==
    [f EXCEPT !.pc = "returned", !.status = s, !.lastOutcome = ToString(s)]

\* Variant: the retries++ after the timer is missing.
OnTimer_noIncrement(f) == LoopHead(f)

\* The backoff timer fired: retries++ and back to the loop head.
OnTimer(f) == LoopHead([f EXCEPT !.retries = @ + 1])

\* The sum of the delays in a sequence of waits.
RECURSIVE SumSeq(_)
SumSeq(s) == IF s = <<>> THEN 0 ELSE s[1] + SumSeq(Tail(s))

(***************************************************************************)
(* The tool handlers.                                                      *)
(***************************************************************************)
\* The number of index symbols a yahoo_market_data call may name.
MaxIndices == 2

Tools == {"yahoo_stock_quote", "yahoo_market_data", "yahoo_stock_history"}

validPeriods ==
    <<"1d", "5d", "1mo", "3mo", "6mo", "1y", "2y", "5y", "10y", "ytd", "max">>

validIntervals ==
    <<"1m", "2m", "5m", "15m", "30m", "60m", "90m", "1h", "1d", "5d", "1wk",
      "1mo", "3mo">>

\* Array.prototype.includes
Includes(arr, x) == \E i \in 1..Len(arr) : arr[i] = x

\* Array.prototype.join, as the pieces of the joined string
RECURSIVE Join(_, _)
Join(arr, sep) ==
    IF Len(arr) = 0 THEN <<>>
    ELSE IF Len(arr) = 1 THEN <<arr[1]>>
    ELSE <<arr[1], sep>> \o Join(Tail(arr), sep)

\* The arguments the model calls the tools with.
Symbol == "AAPL"
PeriodInputs == {"1mo", "ytd", "7d"}
IntervalInputs == {"1d", "1wk", "4h"}
DefaultIndices == <<"^GSPC", "^DJI", "^IXIC">>
IndexSymbol(i) == IF i <= Len(DefaultIndices) THEN DefaultIndices[i] ELSE "^FTSE"

NoArgs == [period |-> "", interval |-> "", indices |-> <<>>]

\* A value read from the parsed body: a number (prices in cents), null, or
\* undefined (the array or the element is not there).
Num(c) == [k |-> "number", v |-> c]
NullValue == [k |-> "null", v |-> 0]
Undefined == [k |-> "undefined", v |-> 0]

\* What response.json() gives for an ok response: it rejects ("malformed"),
\* or the data has no chart.result[0] ("noresult"), or it has one ("result").
\* Of a result the model keeps what yahoo_stock_history reads: n, the length
\* of result.timestamp, and the first and the last element of
\* indicators.quote[0].close.
Malformed == [body |-> "malformed", n |-> 0, first |-> Undefined, last |-> Undefined]
NoResult == [body |-> "noresult", n |-> 0, first |-> Undefined, last |-> Undefined]
Series(n, first, last) == [body |-> "result", n |-> n, first |-> first, last |-> last]
Payloads == {Malformed, NoResult, Series(3, Num(18121), Num(17608))}
JsonErrorMessage == "Unexpected token < in JSON at position 0"

StatusText(s) ==
    CASE s = 200 -> "OK"
      [] s = 404 -> "Not Found"
      [] s = 500 -> "Internal Server Error"
      [] OTHER   -> ""

\* The validation at the top of yahoo_stock_history's try block: the message
\* of the error it throws, or <<>> when it throws none.
ValidationError(period, interval) ==
    IF ~Includes(validPeriods, period)
    THEN <<"Invalid period: ", period, ". Valid periods are: ">>
         \o Join(validPeriods, ", ")
    ELSE IF ~Includes(validIntervals, interval)
    THEN <<"Invalid interval: ", interval, ". Valid intervals are: ">>
         \o Join(validIntervals, ", ")
    ELSE <<>>

\* throw new Error(`API error: ${response.status} ${response.statusText}`)
\* (yahoo_market_data: `API error for ${index}: ...`)
ApiErrorMessage(tool, index, s) ==
    IF tool = "yahoo_market_data"
    THEN <<"API error", " for ", index, ": ", ToString(s), " ", StatusText(s)>>
    ELSE <<"API error", ": ", ToString(s), " ", StatusText(s)>>

\* The text a handler (or, in yahoo_market_data, one index) produces from a
\* parsed body.
NoDataText(tool, a, index) ==
    CASE tool = "yahoo_stock_quote"   -> <<"No data found for symbol: ", Symbol>>
      [] tool = "yahoo_market_data"   -> <<"No data found for index: ", index>>
      [] tool = "yahoo_stock_history" ->
             <<"No historical data found for symbol: ", Symbol>>

(***************************************************************************)
(* The report of yahoo_stock_history.  Prices are whole cents, so that     *)
(* toFixed(2) is exact; a percentage is rounded to its nearest hundredth.  *)
(***************************************************************************)
Abs(x) == IF x < 0 THEN 0 - x ELSE x
Max(a, b) == IF a > b THEN a ELSE b

\* quotes.close?.[i], i counted from 0: the payload's first close at index 0,
\* its last close at index n - 1, a number everywhere between.
CloseAt(p, i) ==
    IF i = 0 THEN p.first
    ELSE IF i = p.n - 1 THEN p.last
    ELSE Num(15000 + 100 * i)

\* x.toFixed(2) of a number of h hundredths in absolute value, negative or not.
FixedOf(negative, h) ==
    (IF negative THEN "-" ELSE "") \o ToString(h \div 100) \o "."
        \o (IF h % 100 < 10 THEN "0" ELSE "") \o ToString(h % 100)

Fixed2(c) == FixedOf(c < 0, Abs(c))

\* ((change / firstClose) * 100).toFixed(2): a division by zero gives an
\* infinity or NaN, which toFixed prints by name.
PercentText(change, firstClose) ==
    IF firstClose = 0
    THEN (IF change = 0 THEN "NaN" ELSE IF change > 0 THEN "Infinity" ELSE "-Infinity")
    ELSE FixedOf((change < 0) # (firstClose < 0) /\ change # 0,
                 (2 * 10000 * Abs(change) + Abs(firstClose)) \div (2 * Abs(firstClose)))

\* What arithmetic makes of a value that is not undefined: null counts as 0.
ToNumber(v) == IF v.k = "number" THEN v.v ELSE 0

RECURSIVE PadEnd(_, _)
PadEnd(str, width) == IF Len(str) >= width THEN str ELSE PadEnd(str \o " ", width)

\* new Date(timestamps[i] * 1000).toLocaleDateString(): one date per index.
DateText(i) == "day " \o ToString(i)

\* quotes.close?.[i]?.toFixed(2) || 'N/A'
CloseText(v) == IF v.k = "number" THEN Fixed2(v.v) ELSE "N/A"

HistoryHeader(a) ==
    <<"Historical data for ", Symbol, " (", a.period, ", ", a.interval,
      " intervals)\n", "Currency: ", "USD", "\n",
      "Date | Open | High | Low | Close | Volume\n",
      "-----------|----------|----------|----------|----------|------------\n">>

\* One row of the table; the model's payloads carry no open, high, low or
\* volume arrays.
Row(p, i) ==
    <<PadEnd(DateText(i), 11), " | $", PadEnd("N/A", 8), " | $", PadEnd("N/A", 8),
      " | $", PadEnd("N/A", 8), " | $", PadEnd(CloseText(CloseAt(p, i)), 8),
      " | ", "N/A", "\n">>

maxPoints == 10

Step_alwaysOne(n) == 1

Step_round(n) == Max(1, (2 * n + maxPoints) \div (2 * maxPoints))

\* Math.max(1, Math.floor(timestamps.length / maxPoints))
Step(n) == Max(1, n \div maxPoints)

\* for (let i = 0; i < timestamps.length; i += step): the text it appends,
\* and the indices it visited.
RECURSIVE SampleLoop(_, _, _)
SampleLoop(p, i, step) ==
    IF i < p.n
    THEN LET rest == SampleLoop(p, i + step, step)
         IN  [text |-> Row(p, i) \o rest.text, rows |-> <<i>> \o rest.rows]
    ELSE [text |-> <<>>, rows |-> <<>>]

PriceChangeLine(firstClose, lastClose) ==
    LET change == ToNumber(lastClose) - ToNumber(firstClose)
    IN  <<"\nPrice Change: $", Fixed2(change), " (",
          PercentText(change, ToNumber(firstClose)), "%)">>

ChangeLine_lastPrinted(p) ==
    IF p.n > 0
    THEN LET firstClose == CloseAt(p, 0)
             lastClose == CloseAt(p, ((p.n - 1) \div Step(p.n)) * Step(p.n))
         IN  IF firstClose.k # "undefined" /\ lastClose.k # "undefined"
             THEN PriceChangeLine(firstClose, lastClose)
             ELSE <<>>
    ELSE <<>>

\* The price change appended after the table.
ChangeLine(p) ==
    IF p.n > 0
    THEN LET firstClose == CloseAt(p, 0)
             lastClose == CloseAt(p, p.n - 1)
         IN  IF firstClose.k # "undefined" /\ lastClose.k # "undefined"
             THEN PriceChangeLine(firstClose, lastClose)
             ELSE <<>>
    ELSE <<>>

ResultText(tool, a, index, p) ==
    CASE tool = "yahoo_stock_quote"   -> <<"JSON.stringify(quoteData)">>
      [] tool = "yahoo_market_data"   -> <<index, ": $", "price", " (", "change", "%)">>
      [] tool = "yahoo_stock_history" ->
             HistoryHeader(a) \o SampleLoop(p, 0, Step(p.n)).text \o ChangeLine(p)

\* `Error: ${error instanceof Error ? error.message : String(error)}`
ErrorText(message) == <<"Error: ">> \o message

(***************************************************************************)
(* One asynchronous task that runs fetchWithRetry and then reads the       *)
(* response: the handler's own body in yahoo_stock_quote and               *)
(* yahoo_stock_history, one callback of indices.map in yahoo_market_data.  *)
(*   f        the fetchWithRetry run                                       *)
(*   pc       "fetching", "json" (suspended at `await response.json()`),   *)
(*            "fulfilled" (value is its text), "rejected" (value is the    *)
(*            message of the error it threw)                               *)
(*   failure  history: the kind of failure that rejected it                *)
(*   body     history: what response.json() gave it                        *)
(*   rows     history: the indices the sampling loop of                    *)
(*            yahoo_stock_history visited                                   *)
(***************************************************************************)
NoBody == [body |-> "none", n |-> 0, first |-> Undefined, last |-> Undefined]

NewTask(f) ==
    [f |-> f, pc |-> "fetching", value |-> <<>>, failure |-> "none",
     body |-> NoBody, rows |-> <<>>]

\* What the task does when fetchWithRetry has moved to f.
AfterFetch(tool, index, task, f) ==
    CASE f.pc = "threw" ->
             [task EXCEPT !.f = f, !.pc = "rejected", !.value = <<f.error>>,
                          !.failure = "ExhaustedRetries"]
      [] f.pc = "returned" /\ ~IsOk(f.status) ->
             [task EXCEPT !.f = f, !.pc = "rejected",
                          !.value = ApiErrorMessage(tool, index, f.status),
                          !.failure = "ApiError"]
      [] f.pc = "returned" /\ IsOk(f.status) ->
             [task EXCEPT !.f = f, !.pc = "json"]
      [] OTHER -> [task EXCEPT !.f = f]

\* What the task does when response.json() has settled with payload p.
AfterJson(tool, a, index, task, p) ==
    CASE p.body = "malformed" ->
             [task EXCEPT !.pc = "rejected", !.value = <<JsonErrorMessage>>,
                          !.failure = "BadBody", !.body = p]
      [] p.body = "noresult" ->
             [task EXCEPT !.pc = "fulfilled", !.value = NoDataText(tool, a, index),
                          !.body = p]
      [] p.body = "result" ->
             [task EXCEPT !.pc = "fulfilled",
                          !.value = ResultText(tool, a, index, p),
                          !.body = p,
                          !.rows = IF tool = "yahoo_stock_history"
                                   THEN SampleLoop(p, 0, Step(p.n)).rows
                                   ELSE <<>>]

(***************************************************************************)
(* The start of the requested range, in seconds since the epoch, from the  *)
(* period and from period2 = Math.floor(Date.now() / 1000).  zone is the   *)
(* server's time zone, in seconds east of UTC: new Date(year, 0, 1) is     *)
(* midnight of January 1 in local time.  One offset holds all year.        *)
(***************************************************************************)
SecondsPerDay == 86400

Years == 1969..2037

LeapDaysBefore(y) == ((y - 1) \div 4) - ((y - 1) \div 100) + ((y - 1) \div 400)

\* new Date(y, 0, 1).getTime() / 1000 in UTC
YearStart(y) ==
    (365 * (y - 1970) + LeapDaysBefore(y) - LeapDaysBefore(1970)) * SecondsPerDay

\* getFullYear() of the local time t
getFullYear(t) == CHOOSE y \in Years : YearStart(y) <= t /\ t < YearStart(y + 1)

Period1_defaultIsEpoch(period, period2, zone) ==
    CASE period = "1d"  -> period2 - SecondsPerDay
      [] period = "5d"  -> period2 - 5 * SecondsPerDay
      [] period = "1mo" -> period2 - 30 * SecondsPerDay
      [] period = "3mo" -> period2 - 90 * SecondsPerDay
      [] period = "6mo" -> period2 - 180 * SecondsPerDay
      [] period = "1y"  -> period2 - 365 * SecondsPerDay
      [] period = "2y"  -> period2 - 2 * 365 * SecondsPerDay
      [] period = "5y"  -> period2 - 5 * 365 * SecondsPerDay
      [] period = "10y" -> period2 - 10 * 365 * SecondsPerDay
      [] period = "ytd" -> YearStart(getFullYear(period2 + zone)) - zone
      [] period = "max" -> 0
      [] OTHER          -> 0

\* switch(period) { ... }
Period1(period, period2, zone) ==
    CASE period = "1d"  -> period2 - SecondsPerDay
      [] period = "5d"  -> period2 - 5 * SecondsPerDay
      [] period = "1mo" -> period2 - 30 * SecondsPerDay
      [] period = "3mo" -> period2 - 90 * SecondsPerDay
      [] period = "6mo" -> period2 - 180 * SecondsPerDay
      [] period = "1y"  -> period2 - 365 * SecondsPerDay
      [] period = "2y"  -> period2 - 2 * 365 * SecondsPerDay
      [] period = "5y"  -> period2 - 5 * 365 * SecondsPerDay
      [] period = "10y" -> period2 - 10 * 365 * SecondsPerDay
      [] period = "ytd" -> YearStart(getFullYear(period2 + zone)) - zone
      [] period = "max" -> 0
      [] OTHER          -> period2 - 30 * SecondsPerDay

VARIABLES
    hpc,      \* the handler: "idle", "awaiting" (suspended in its try block), "done";
              \* "switched" once the period switch alone has run
    call,     \* the tool invoked and its arguments; the server's time zone and
              \* the period1 and period2 of the URL yahoo_stock_history built;
              \* history: seq, the number of invocations so far (counted up
              \* to PerMinute + 1)
    tasks,    \* the asynchronous tasks the invocation started
    outcome   \* how the handler ended: the response it returned or the error it threw

handlerVars == <<hpc, call, tasks, outcome>>

vars == <<now, requestCount, lastCheck, win, hpc, call, tasks, outcome>>

NoOutcome == [kind |-> "none", text |-> <<>>, failure |-> "none"]

\* results.join('\n') over the texts of the tasks
RECURSIVE JoinTexts(_, _)
JoinTexts(ts, sep) ==
    IF Len(ts) = 0 THEN <<>>
    ELSE IF Len(ts) = 1 THEN ts[1].value
    ELSE ts[1].value \o <<sep>> \o JoinTexts(Tail(ts), sep)

Settled(task) == task.pc \in {"fulfilled", "rejected"}

Quiescent == \A i \in 1..Len(tasks) : Settled(tasks[i])

TaskIndex(i) == IF call.tool = "yahoo_market_data" THEN call.args.indices[i] ELSE Symbol

Init ==
    /\ BudgetInit
    /\ hpc = "idle"
    /\ call = [tool |-> "none", args |-> NoArgs, zone |-> 0,
                period1 |-> 0, period2 |-> 0, seq |-> 0]
    /\ tasks = <<>>
    /\ outcome = NoOutcome

(***************************************************************************)
(* A tool is invoked: the handler runs from its first statement to its     *)
(* first suspension, or to its end.                                        *)
(*   checkRateLimit() is the first statement, before the try block: what   *)
(*   it throws leaves the handler.  yahoo_stock_history then validates     *)
(*   period and interval inside the try block.  Then each task calls       *)
(*   fetchWithRetry, which runs to its first `await fetch`.                *)
\* Variant: yahoo_market_data calls checkRateLimit() in the callback of
\* indices.map, once for the first index and once more for the others.
Invoke_checksPerIndex(tool, a) ==
    /\ hpc \in {"idle", "done"}
    /\ Quiescent
    /\ LET n == IF tool = "yahoo_market_data" THEN Len(a.indices) ELSE 1
           once == checkRateLimit(requestCount, now)
           again == checkRateLimit(once.requestCount, now)
           res == IF n >= 2 /\ ~once.threw THEN again ELSE once
           invalid == IF tool = "yahoo_stock_history"
                      THEN ValidationError(a.period, a.interval)
                      ELSE <<>>
           started == [i \in 1..n |->
                         LET f == LoopHead(NewFetch(DefaultMaxRetries))
                             index == IF tool = "yahoo_market_data"
                                      THEN a.indices[i] ELSE Symbol
                         IN  AfterFetch(tool, index, NewTask(f), f)]
       IN  /\ BudgetCall(res)
           /\ call' = IF tool = "yahoo_stock_history" /\ ~res.threw /\ invalid = <<>>
                      THEN [tool |-> tool, args |-> a, zone |-> call.zone,
                            period1 |-> Period1(a.period, now \div 1000, call.zone),
                            period2 |-> now \div 1000,
                            seq |-> Min(call.seq + 1, PerMinute + 1)]
                      ELSE [tool |-> tool, args |-> a, zone |-> call.zone,
                            period1 |-> 0, period2 |-> 0,
                            seq |-> Min(call.seq + 1, PerMinute + 1)]
           /\ IF res.threw
              THEN /\ tasks' = <<>>
                   /\ hpc' = "done"
                   /\ outcome' = [kind |-> "threw", text |-> <<RateLimitMessage>>,
                                  failure |-> "RateLimited"]
              ELSE IF invalid # <<>>
              THEN /\ tasks' = <<>>
                   /\ hpc' = "done"
                   /\ outcome' = [kind |-> "returned", text |-> ErrorText(invalid),
                                  failure |-> "InvalidParameter"]
              ELSE IF n = 0
              THEN /\ tasks' = <<>>
                   /\ hpc' = "done"
                   /\ outcome' = [kind |-> "returned", text |-> <<>>,
                                  failure |-> "none"]
              ELSE /\ tasks' = started
                   /\ hpc' = "awaiting"
                   /\ outcome' = NoOutcome

(***************************************************************************)
Invoke(tool, a) ==
    /\ hpc \in {"idle", "done"}
    /\ Quiescent
    /\ LET res == checkRateLimit(requestCount, now)
           n == IF tool = "yahoo_market_data" THEN Len(a.indices) ELSE 1
           invalid == IF tool = "yahoo_stock_history"
                      THEN ValidationError(a.period, a.interval)
                      ELSE <<>>
           started == [i \in 1..n |->
                         LET f == LoopHead(NewFetch(DefaultMaxRetries))
                             index == IF tool = "yahoo_market_data"
                                      THEN a.indices[i] ELSE Symbol
                         IN  AfterFetch(tool, index, NewTask(f), f)]
       IN  /\ BudgetCall(res)
           /\ call' = IF tool = "yahoo_stock_history" /\ ~res.threw /\ invalid = <<>>
                      THEN [tool |-> tool, args |-> a, zone |-> call.zone,
                            period1 |-> Period1(a.period, now \div 1000, call.zone),
                            period2 |-> now \div 1000,
                            seq |-> Min(call.seq + 1, PerMinute + 1)]
                      ELSE [tool |-> tool, args |-> a, zone |-> call.zone,
                            period1 |-> 0, period2 |-> 0,
                            seq |-> Min(call.seq + 1, PerMinute + 1)]
           /\ IF res.threw
              THEN /\ tasks' = <<>>
                   /\ hpc' = "done"
                   /\ outcome' = [kind |-> "threw", text |-> <<RateLimitMessage>>,
                                  failure |-> "RateLimited"]
              ELSE IF invalid # <<>>
              THEN /\ tasks' = <<>>
                   /\ hpc' = "done"
                   /\ outcome' = [kind |-> "returned", text |-> ErrorText(invalid),
                                  failure |-> "InvalidParameter"]
              ELSE IF n = 0
              THEN /\ tasks' = <<>>
                   /\ hpc' = "done"
                   /\ outcome' = [kind |-> "returned", text |-> <<>>,
                                  failure |-> "none"]
              ELSE /\ tasks' = started
                   /\ hpc' = "awaiting"
                   /\ outcome' = NoOutcome

InvokeQuote == Invoke("yahoo_stock_quote", NoArgs)

InvokeMarket ==
    \E k \in 0..MaxIndices :
        Invoke("yahoo_market_data",
               [NoArgs EXCEPT !.indices = [i \in 1..k |-> IndexSymbol(i)]])

InvokeHistory ==
    \E p \in PeriodInputs, v \in IntervalInputs :
        Invoke("yahoo_stock_history", [NoArgs EXCEPT !.period = p, !.interval = v])

(***************************************************************************)
(* A task moves on.  When the handler is still suspended, the step also    *)
(* runs what the handler does next: the catch block when the task (in      *)
(* yahoo_market_data, the first task of Promise.all) rejected, the return  *)
(* of the text when every task is fulfilled.                               *)
(***************************************************************************)
\* Variant: a rejected task gives its unit of quota back.
TaskStep_refunds(i, task) ==
    LET ts == [tasks EXCEPT ![i] = task]
    IN  /\ tasks' = ts
        /\ IF hpc = "awaiting" /\ task.pc = "rejected"
           THEN /\ hpc' = "done"
                /\ outcome' = [kind |-> "returned", text |-> ErrorText(task.value),
                               failure |-> task.failure]
           ELSE IF hpc = "awaiting" /\ \A j \in 1..Len(ts) : ts[j].pc = "fulfilled"
           THEN /\ hpc' = "done"
                /\ outcome' = [kind |-> "returned", text |-> JoinTexts(ts, "\n"),
                               failure |-> "none"]
           ELSE UNCHANGED <<hpc, outcome>>
        /\ requestCount' = IF task.pc = "rejected"
                         THEN [requestCount EXCEPT !.minute = @ - 1, !.day = @ - 1]
                         ELSE requestCount
        /\ UNCHANGED <<call, now, lastCheck, win>>

\* Variant: the lines of the indices already fetched precede the error.
TaskStep_partialResults(i, task) ==
    LET ts == [tasks EXCEPT ![i] = task]
    IN  /\ tasks' = ts
        /\ IF hpc = "awaiting" /\ task.pc = "rejected"
           THEN /\ hpc' = "done"
                /\ outcome' = [kind |-> "returned",
                               text |-> JoinTexts(SelectSeq(ts, LAMBDA t : t.pc = "fulfilled"), "\n")
                                        \o ErrorText(task.value),
                               failure |-> task.failure]
           ELSE IF hpc = "awaiting" /\ \A j \in 1..Len(ts) : ts[j].pc = "fulfilled"
           THEN /\ hpc' = "done"
                /\ outcome' = [kind |-> "returned", text |-> JoinTexts(ts, "\n"),
                               failure |-> "none"]
           ELSE UNCHANGED <<hpc, outcome>>
        /\ UNCHANGED <<call, now, requestCount, lastCheck, win>>

\* Variant: when the handler returns the error of a rejected task, the tasks
\* still running are aborted.
TaskStep_cancelsOthers(i, task) ==
    LET ts == [tasks EXCEPT ![i] = task]
        aborted == [j \in 1..Len(ts) |->
                      IF Settled(ts[j]) THEN ts[j]
                      ELSE [ts[j] EXCEPT !.pc = "rejected", !.value = <<"aborted">>,
                                         !.failure = "Aborted"]]
    IN  /\ IF hpc = "awaiting" /\ task.pc = "rejected"
           THEN /\ tasks' = aborted
                /\ hpc' = "done"
                /\ outcome' = [kind |-> "returned", text |-> ErrorText(task.value),
                               failure |-> task.failure]
           ELSE IF hpc = "awaiting" /\ \A j \in 1..Len(ts) : ts[j].pc = "fulfilled"
           THEN /\ tasks' = ts
                /\ hpc' = "done"
                /\ outcome' = [kind |-> "returned", text |-> JoinTexts(ts, "\n"),
                               failure |-> "none"]
           ELSE tasks' = ts /\ UNCHANGED <<hpc, outcome>>
        /\ UNCHANGED <<call, now, requestCount, lastCheck, win>>

TaskStep(i, task) ==
    LET ts == [tasks EXCEPT ![i] = task]
    IN  /\ tasks' = ts
        /\ IF hpc = "awaiting" /\ task.pc = "rejected"
           THEN /\ hpc' = "done"
                /\ outcome' = [kind |-> "returned", text |-> ErrorText(task.value),
                               failure |-> task.failure]
           ELSE IF hpc = "awaiting" /\ \A j \in 1..Len(ts) : ts[j].pc = "fulfilled"
           THEN /\ hpc' = "done"
                /\ outcome' = [kind |-> "returned", text |-> JoinTexts(ts, "\n"),
                               failure |-> "none"]
           ELSE UNCHANGED <<hpc, outcome>>
        /\ UNCHANGED <<call, now, requestCount, lastCheck, win>>

\* fetch() rejects with a network fault.
TransportFault ==
    \E i \in 1..Len(tasks) :
        /\ tasks[i].pc = "fetching" /\ tasks[i].f.pc = "fetch"
        /\ TaskStep(i, AfterFetch(call.tool, TaskIndex(i), tasks[i],
                                  OnFault(tasks[i].f,
                                          FaultMessage(tasks[i].f.attempts))))

\* fetch() resolves with status 429.
Transport429 ==
    \E i \in 1..Len(tasks) :
        /\ tasks[i].pc = "fetching" /\ tasks[i].f.pc = "fetch"
        /\ TaskStep(i, AfterFetch(call.tool, TaskIndex(i), tasks[i],
                                  On429(tasks[i].f)))

\* fetch() resolves with another status.
TransportResponse ==
    \E i \in 1..Len(tasks), s \in OtherStatuses :
        /\ tasks[i].pc = "fetching" /\ tasks[i].f.pc = "fetch"
        /\ TaskStep(i, AfterFetch(call.tool, TaskIndex(i), tasks[i],
                                  OnResponse(tasks[i].f, s)))

\* The backoff timer of a fetchWithRetry run fires.
TimerFires ==
    \E i \in 1..Len(tasks) :
        /\ tasks[i].pc = "fetching" /\ tasks[i].f.pc = "sleep"
        /\ TaskStep(i, AfterFetch(call.tool, TaskIndex(i), tasks[i],
                                  OnTimer(tasks[i].f)))

\* response.json() settles.
JsonSettles(bodies) ==
    \E i \in 1..Len(tasks), p \in bodies :
        /\ tasks[i].pc = "json"
        /\ TaskStep(i, AfterJson(call.tool, call.args, TaskIndex(i), tasks[i], p))

JsonArrives == JsonSettles(Payloads)

Next ==
    \/ InvokeQuote
    \/ InvokeMarket
    \/ InvokeHistory
    \/ TransportFault
    \/ Transport429
    \/ TransportResponse
    \/ TimerFires
    \/ JsonArrives

Spec == Init /\ [][Next]_vars

(***************************************************************************)
(* The budget under the passage of time: a tool handler is entered (its    *)
(* first statement, checkRateLimit(), runs) at arbitrary clock readings.   *)
(***************************************************************************)
HandlerEntry ==
    /\ BudgetCall(checkRateLimit(requestCount, now))
    /\ UNCHANGED handlerVars

TimePasses == Tick /\ UNCHANGED handlerVars

NextBudget ==
    \/ HandlerEntry
    \/ TimePasses

SpecBudget == Init /\ [][NextBudget]_vars

\* The same steps from a state in which the times of the accepted calls are
\* recorded.
InitBurst ==
    /\ requestCount = [minute |-> 0, day |-> 0,
                       lastMinuteReset |-> 0, lastDayReset |-> 0]
    /\ now = 0
    /\ lastCheck = NoCheck
    /\ win = [FreshWindow EXCEPT !.recording = TRUE]
    /\ hpc = "idle"
    /\ call = [tool |-> "none", args |-> NoArgs, zone |-> 0,
                period1 |-> 0, period2 |-> 0, seq |-> 0]
    /\ tasks = <<>>
    /\ outcome = NoOutcome

SpecBurst == InitBurst /\ [][NextBudget]_vars

(***************************************************************************)
(* yahoo_stock_history over the series the upstream can answer with: every *)
(* length up to MaxSeries, and a first and a last close that are a number, *)
(* null or not there.                                                      *)
(***************************************************************************)
MaxSeries == 30

CloseInputs == {Num(18121), Num(17608), NullValue, Undefined}

HistoryPayloads ==
    {NoResult} \cup {Series(n, first, last) :
                        n \in 0..MaxSeries, first \in CloseInputs, last \in CloseInputs}

HistoryCall ==
    Invoke("yahoo_stock_history", [NoArgs EXCEPT !.period = "1mo", !.interval = "1d"])

HistoryBody == JsonSettles(HistoryPayloads)

NextHistory ==
    \/ HistoryCall
    \/ TransportResponse
    \/ HistoryBody

SpecHistory == Init /\ [][NextHistory]_vars

(***************************************************************************)
(* The period switch of yahoo_stock_history on its own: period2 and the    *)
(* time zone are drawn from clock readings around year ends and a leap     *)
(* day, the period from the enumerated strings and three others.           *)
(***************************************************************************)
ClockInputs ==
    {0, 13046400, 1704067199, 1704067200, 1709208000, 1735689599, 1735707599,
     1793750400}

ZoneInputs == {0 - 18000, 0, 3600}

PeriodStrings == {validPeriods[i] : i \in 1..Len(validPeriods)} \cup {"7d", "1w", ""}

InitPeriod ==
    /\ BudgetInit
    /\ hpc = "idle"
    /\ \E p \in PeriodStrings, t \in ClockInputs, z \in ZoneInputs :
           call = [tool |-> "yahoo_stock_history",
                   args |-> [NoArgs EXCEPT !.period = p, !.interval = "1d"],
                   zone |-> z, period1 |-> 0, period2 |-> t, seq |-> 0]
    /\ tasks = <<>>
    /\ outcome = NoOutcome

PeriodSwitch ==
    /\ hpc = "idle"
    /\ hpc' = "switched"
    /\ call' = [call EXCEPT !.period1 = Period1(call.args.period, call.period2, call.zone)]
    /\ UNCHANGED <<now, requestCount, lastCheck, win, tasks, outcome>>

NextPeriod == PeriodSwitch

SpecPeriod == InitPeriod /\ [][NextPeriod]_vars

(***************************************************************************)
(* Tool invocations running concurrently.  An invocation runs from its     *)
(* first statement, checkRateLimit(), to its first await without another   *)
(* one running in between; two accepted invocations at a time are          *)
(* suspended in tasks, each resumed when its response and then its body    *)
(* arrive, in any order, while the clock moves on.  A rejected invocation  *)
(* throws at once and is never suspended.                                  *)
(***************************************************************************)
InFlight == {"one", "other"}

Enters ==
    LET res == checkRateLimit(requestCount, now)
        f == LoopHead(NewFetch(DefaultMaxRetries))
    IN  /\ res.threw \/ Len(tasks) < Cardinality(InFlight)
        /\ BudgetCall(res)
        /\ tasks' = IF res.threw
                    THEN tasks
                    ELSE Append(tasks, AfterFetch("yahoo_stock_quote", Symbol, NewTask(f), f))
        /\ UNCHANGED <<hpc, call, outcome>>

ResponseArrives ==
    \E i \in 1..Len(tasks) :
        /\ tasks[i].pc = "fetching" /\ tasks[i].f.pc = "fetch"
        /\ tasks' = [tasks EXCEPT ![i] =
                        AfterFetch("yahoo_stock_quote", Symbol, tasks[i],
                                   OnResponse(tasks[i].f, 200))]
        /\ UNCHANGED <<now, requestCount, lastCheck, win, hpc, call, outcome>>

Returns ==
    \E i \in 1..Len(tasks) :
        /\ tasks[i].pc = "json"
        /\ tasks' = SubSeq(tasks, 1, i - 1) \o SubSeq(tasks, i + 1, Len(tasks))
        /\ UNCHANGED <<now, requestCount, lastCheck, win, hpc, call, outcome>>

NextConcurrent ==
    \/ Enters
    \/ ResponseArrives
    \/ Returns
    \/ TimePasses

SpecConcurrent == Init /\ [][NextConcurrent]_vars

(***************************************************************************)
(* fetchWithRetry called with any maxRetries from 0 to MaxMaxRetries, and  *)
(* answered by any sequence of faults, 429 responses and other responses.  *)
(* A fetch() call that was made settles and a timer that was started       *)
(* fires: the steps of the transport and of the timer are weakly fair.     *)
(***************************************************************************)
MaxMaxRetries == 4

InitRetry ==
    /\ BudgetInit
    /\ hpc = "idle"
    /\ call = [tool |-> "none", args |-> NoArgs, zone |-> 0,
                period1 |-> 0, period2 |-> 0, seq |-> 0]
    /\ \E m \in 0..MaxMaxRetries : tasks = <<NewTask(NewFetch(m))>>
    /\ outcome = NoOutcome

\* The call runs to the head of its loop.
RetryStarts ==
    \E i \in 1..Len(tasks) :
        /\ tasks[i].pc = "fetching" /\ tasks[i].f.pc = "start"
        /\ TaskStep(i, AfterFetch(call.tool, TaskIndex(i), tasks[i],
                                  LoopHead(tasks[i].f)))

TransportSettles ==
    \/ TransportFault
    \/ Transport429
    \/ TransportResponse

NextRetry ==
    \/ RetryStarts
    \/ TransportFault
    \/ Transport429
    \/ TransportResponse
    \/ TimerFires

SpecRetry ==
    /\ InitRetry /\ [][NextRetry]_vars
    /\ WF_vars(RetryStarts)
    /\ WF_vars(TransportSettles)
    /\ WF_vars(TimerFires)

(***************************************************************************)
(* Properties of the request budget (SpecBudget).                          *)
(***************************************************************************)
\* The counts the latest call found once its window resets were done: a call
\* that moved a window's start found that window's count at 0.
MinuteSeen ==
    IF requestCount.lastMinuteReset # lastCheck.pre.lastMinuteReset
    THEN 0 ELSE lastCheck.pre.minute

DaySeen ==
    IF requestCount.lastDayReset # lastCheck.pre.lastDayReset
    THEN 0 ELSE lastCheck.pre.day

\* C1: in a minute window with no reset in it and the day window never full,
\* the first PerMinute calls of checkRateLimit() are accepted and every later
\* call is rejected: of n calls, min(n, PerMinute) were accepted, and the
\* latest call was rejected exactly when it was call PerMinute + 1 or later.
C1_FirstCallsAcceptedLaterRejected ==
    (lastCheck.called /\ ~win.dayFull) =>
        /\ win.accepted = Min(win.calls, RATE_LIMIT.perMinute)
        /\ lastCheck.threw <=> (win.calls > RATE_LIMIT.perMinute)

\* The fresh budget's first window has had more than PerMinute calls.
C1_Witness ==
    /\ win.first /\ ~win.dayFull
    /\ win.calls = RATE_LIMIT.perMinute + 1
    /\ win.accepted = RATE_LIMIT.perMinute
    /\ lastCheck.threw

\* C3: a rejected checkRateLimit() call increments neither count, an accepted
\* one increments both by exactly one, and the call is rejected exactly when,
\* after the window resets, the minute count has reached the minute capacity
\* or the day count has reached the day capacity.
C3_RejectedCallsCountNothing ==
    lastCheck.called =>
        /\ lastCheck.threw <=> (\/ MinuteSeen >= RATE_LIMIT.perMinute
                                \/ DaySeen >= RATE_LIMIT.perDay)
        /\ lastCheck.threw =>
               /\ requestCount.minute = MinuteSeen
               /\ requestCount.day = DaySeen
        /\ ~lastCheck.threw =>
               /\ requestCount.minute = MinuteSeen + 1
               /\ requestCount.day = DaySeen + 1

\* A call rejected by the day capacity alone, in a minute window that had room.
C3_Witness ==
    /\ lastCheck.called /\ lastCheck.threw
    /\ MinuteSeen < RATE_LIMIT.perMinute
    /\ DaySeen >= RATE_LIMIT.perDay
    /\ requestCount.minute = MinuteSeen

\* C9 as stated: a checkRateLimit() call made at least 60 000 ms after the
\* minute window's start, the 60 000th ms included, resets the minute count
\* and is accepted when the day window is not full.
C9_ResetsAtSixtySeconds ==
    (/\ lastCheck.called
     /\ lastCheck.at - lastCheck.pre.lastMinuteReset >= MinuteWindow
     /\ DaySeen < RATE_LIMIT.perDay) =>
        /\ ~lastCheck.threw
        /\ requestCount.minute = 1
        /\ requestCount.lastMinuteReset = lastCheck.at

\* C9 amended: a checkRateLimit() call made more than 60 000 ms after the
\* minute window's start resets the minute count to 0, restarts the window
\* at the time of the call and is accepted when the day window is not full,
\* even if the minute window was full before.
C9_ResetsAfterSixtySeconds ==
    (/\ lastCheck.called
     /\ lastCheck.at - lastCheck.pre.lastMinuteReset > MinuteWindow
     /\ DaySeen < RATE_LIMIT.perDay) =>
        /\ ~lastCheck.threw
        /\ requestCount.minute = 1
        /\ requestCount.lastMinuteReset = lastCheck.at

\* A call made 60 001 ms or more after the start of a full minute window.
C9_Witness ==
    /\ lastCheck.called
    /\ lastCheck.at - lastCheck.pre.lastMinuteReset > MinuteWindow
    /\ lastCheck.pre.minute = RATE_LIMIT.perMinute
    /\ DaySeen < RATE_LIMIT.perDay
    /\ ~lastCheck.threw
    /\ requestCount.minute = 1

(***************************************************************************)
(* Properties of fetchWithRetry and of the handlers (Spec).                *)
(***************************************************************************)
Runs == {tasks[i].f : i \in 1..Len(tasks)}

BeginsWith(text, pieces) ==
    /\ Len(text) >= Len(pieces)
    /\ \A j \in 1..Len(pieces) : text[j] = pieces[j]

\* C2: every failure in a tool invocation ends with the handler returning a
\* response whose text begins with "Error:"; no handler ever ends by throwing.
C2_FailuresReturnErrorText ==
    hpc = "done" =>
        /\ outcome.kind = "returned"
        /\ outcome.failure # "none" => BeginsWith(outcome.text, <<"Error: ">>)

\* C4: fetchWithRetry never makes more than maxRetries fetch() calls, and a
\* run in which every call raised a network fault ends after exactly
\* maxRetries calls by throwing the fault of the last one.
C4_AlwaysFaultingMakesMaxRetriesAttempts ==
    \A f \in Runs :
        /\ f.attempts <= f.maxRetries
        /\ (f.pc = "threw" /\ f.n429 = 0) =>
               /\ f.attempts = f.maxRetries
               /\ f.lastOutcome = "fault"
               /\ f.error = f.lastFault

\* A default run (maxRetries 3) that only met network faults has thrown.
C4_Witness ==
    \E f \in Runs :
        /\ f.pc = "threw" /\ f.n429 = 0
        /\ f.maxRetries = DefaultMaxRetries /\ f.attempts = DefaultMaxRetries
        /\ f.error \in FaultMessages

\* C5: lastError only ever holds a network fault, the latest one; a run that
\* exhausts its retries throws "Maximum retries exceeded" when every attempt
\* returned 429 and the latest network fault otherwise, also when 429s
\* followed that fault.
C5_ExhaustedRetriesError ==
    \A f \in Runs :
        /\ f.lastError \in FaultMessages \cup {Null}
        /\ f.lastError = f.lastFault
        /\ f.pc = "threw" =>
               /\ f.lastFault = Null => f.error = MaxRetriesMessage
               /\ f.lastFault # Null => f.error = f.lastFault

\* A run that met a network fault and then only 429s has thrown that fault.
C5_Witness ==
    \E f \in Runs :
        /\ f.pc = "threw"
        /\ f.lastFault # Null /\ f.n429 > 0 /\ f.lastOutcome = ToString(TooManyRequests)
        /\ f.error = f.lastFault

\* C6: once fetch() has given a response whose status is not 429, the run
\* has returned that response, with no backoff wait started after it and no
\* further fetch() call; and it is the task, not fetchWithRetry, that turns
\* a non-ok status into an "API error", which the handler returns as
\* "Error: API error...".
C6_OtherStatusReturnedAtOnce ==
    \A i \in 1..Len(tasks) :
        LET f == tasks[i].f
        IN  f.lastOutcome \notin {"none", "fault", ToString(TooManyRequests)} =>
                /\ f.pc = "returned"
                /\ ToString(f.status) = f.lastOutcome
                /\ Len(f.waits) = f.retries
                /\ f.attempts = f.retries + 1
                /\ f.error = Null
                /\ ~IsOk(f.status) =>
                       /\ tasks[i].pc = "rejected"
                       /\ BeginsWith(tasks[i].value, <<"API error">>)
                       /\ Len(tasks) = 1 =>
                              /\ outcome.kind = "returned"
                              /\ BeginsWith(outcome.text, <<"Error: ", "API error">>)

\* A 500 that followed a retried attempt was returned and reported.
C6_Witness ==
    /\ Len(tasks) = 1
    /\ tasks[1].f.pc = "returned" /\ tasks[1].f.status = 500
    /\ tasks[1].f.retries = 1
    /\ hpc = "done"
    /\ BeginsWith(outcome.text, <<"Error: ", "API error">>)

\* C7: the j-th backoff wait of a run (after the failed attempt of index
\* j - 1, network fault or 429 alike) is exactly 2^(j-1) seconds, and a
\* default run sleeps at most 1 + 2 + 4 = 7 seconds in all.
C7_BackoffIsPowerOfTwoSeconds ==
    \A f \in Runs :
        /\ \A j \in 1..Len(f.waits) : f.waits[j] = Pow2(j - 1) * 1000
        /\ f.maxRetries = DefaultMaxRetries => SumSeq(f.waits) <= 1000 + 2000 + 4000

\* A run that met both a network fault and a 429 has slept 1, 2 and 4 s.
C7_Witness ==
    \E f \in Runs :
        /\ f.waits = <<1000, 2000, 4000>>
        /\ f.n429 > 0 /\ f.lastFault # Null

\* C8: fetchWithRetry starts a backoff wait only before a retry it makes: a
\* run that has thrown started one wait fewer than it made fetch() calls.
C8_NoWaitAfterFinalAttempt ==
    \A f \in Runs :
        f.pc = "threw" => Len(f.waits) = f.attempts - 1

\* C10: a yahoo_stock_history invocation whose period or interval is not an
\* enumerated value returns an Error text that lists every valid value of
\* the offending parameter, and starts no fetch.
C10_InvalidParameterListsValuesNoFetch ==
    (/\ hpc = "done"
     /\ call.tool = "yahoo_stock_history"
     /\ \/ ~Includes(validPeriods, call.args.period)
        \/ ~Includes(validIntervals, call.args.interval)) =>
        /\ tasks = <<>>
        /\ outcome.kind = "returned"
        /\ BeginsWith(outcome.text, <<"Error: ">>)
        /\ LET valid == IF ~Includes(validPeriods, call.args.period)
                        THEN validPeriods ELSE validIntervals
           IN  \A k \in 1..Len(valid) : Includes(outcome.text, valid[k])

\* C11: a yahoo_stock_history invocation that ends with InvalidParameter
\* leaves both budget counts as it found them.
C11_InvalidParameterConsumesNoQuota ==
    (hpc = "done" /\ outcome.failure = "InvalidParameter") =>
        /\ requestCount.minute = MinuteSeen
        /\ requestCount.day = DaySeen

\* C12: from the moment checkRateLimit() has accepted an invocation, through
\* everything its tasks do afterwards, both counts stay exactly one above
\* what that check found: the unit is neither refunded nor taken again.
C12_ConsumedQuotaStays ==
    (hpc \in {"awaiting", "done"} /\ lastCheck.called /\ ~lastCheck.threw) =>
        /\ requestCount.minute = MinuteSeen + 1
        /\ requestCount.day = DaySeen + 1

\* An accepted invocation has ended in exhausted retries.
C12_Witness ==
    /\ hpc = "done" /\ ~lastCheck.threw
    /\ outcome.failure = "ExhaustedRetries"
    /\ requestCount.minute = MinuteSeen + 1

\* C18: once a task of a yahoo_market_data invocation has rejected, the
\* response is the Error text of one rejected task alone, with no line of
\* any other index; a response without failure is returned only when every
\* task is fulfilled, and is the join of their lines.
C18_MarketDataAllOrNothing ==
    (hpc = "done" /\ call.tool = "yahoo_market_data" /\ Len(tasks) > 0) =>
        /\ outcome.kind = "returned"
        /\ (\E i \in 1..Len(tasks) : tasks[i].pc = "rejected") =>
               \E i \in 1..Len(tasks) :
                   /\ tasks[i].pc = "rejected"
                   /\ outcome.text = <<"Error: ">> \o tasks[i].value
                   /\ \A j \in 1..Len(tasks) :
                          j # i => ~Includes(outcome.text, call.args.indices[j])
        /\ outcome.failure = "none" =>
               /\ \A i \in 1..Len(tasks) : tasks[i].pc = "fulfilled"
               /\ outcome.text = JoinTexts(tasks, "\n")

\* One index was fetched and another failed: the response is the error only.
C18_Witness ==
    /\ hpc = "done" /\ call.tool = "yahoo_market_data" /\ Len(tasks) = 2
    /\ tasks[1].pc = "fulfilled" /\ tasks[2].pc = "rejected"
    /\ outcome.text = <<"Error: ">> \o tasks[2].value


(***************************************************************************)
(* Properties of the history report (SpecHistory).                         *)
(***************************************************************************)
\* The history invocation has returned the report of a series.
Reported ==
    /\ hpc = "done" /\ call.tool = "yahoo_stock_history"
    /\ Len(tasks) = 1 /\ tasks[1].pc = "fulfilled" /\ tasks[1].body.body = "result"

series == tasks[1].body

\* The rows of a report: the pieces that end a table row.
RowCount(text) ==
    Cardinality({j \in (Len(HistoryHeader(call.args)) + 1)..Len(text) : text[j] = "\n"})

\* C13: for a series of N records the renderer emits a row for exactly the
\* indices 0, step, 2*step, ... below N, ascending, step = max(1, floor(N/10));
\* for N = 23 these are the 12 indices 0, 2, ..., 22.
C13_RowsAreEveryStepthIndex ==
    Reported =>
        LET N == series.n
            step == IF N \div 10 >= 1 THEN N \div 10 ELSE 1
            rows == tasks[1].rows
        IN  /\ \A j \in 1..Len(rows) : rows[j] = (j - 1) * step
            /\ \A i \in 0..(N - 1) :
                   (i % step = 0) <=> (\E j \in 1..Len(rows) : rows[j] = i)
            /\ RowCount(tasks[1].value) = Len(rows)
            /\ \A j \in 1..Len(rows) :
                   Includes(tasks[1].value, PadEnd(DateText(rows[j]), 11))
            /\ N = 23 => rows = <<0, 2, 4, 6, 8, 10, 12, 14, 16, 18, 20, 22>>

C13_Witness ==
    /\ Reported /\ series.n = 23
    /\ tasks[1].rows = <<0, 2, 4, 6, 8, 10, 12, 14, 16, 18, 20, 22>>
    /\ outcome.text = tasks[1].value

\* C14 as stated: for every N >= 1 the renderer emits at least 1 and at most
\* 11 rows.
C14_AtMostElevenRows ==
    (Reported /\ series.n >= 1) =>
        /\ Len(tasks[1].rows) >= 1
        /\ Len(tasks[1].rows) <= 11

\* C14 amended: for every N >= 1 the renderer emits at least 1 and at most
\* 19 rows (2 * maxPoints - 1, reached at N = 19, the longest series still
\* walked with step 1).
C14_AtMostNineteenRows ==
    (Reported /\ series.n >= 1) =>
        /\ Len(tasks[1].rows) >= 1
        /\ Len(tasks[1].rows) <= 2 * maxPoints - 1
        /\ RowCount(tasks[1].value) = Len(tasks[1].rows)

C14_Witness ==
    Reported /\ series.n = 19 /\ Len(tasks[1].rows) = 19 /\ RowCount(outcome.text) = 19

HasChangeLine(text) == Includes(text, "\nPrice Change: $")

firstRecordClose == CloseAt(series, 0)
lastRecordClose == CloseAt(series, series.n - 1)

\* C15: the trailing price-change line is computed from the close of record 0
\* and the close of record N-1 of the whole series, whether or not index N-1
\* is a printed row: a fall from 181.21 to 176.08 reads "$-5.13 (-2.83%)".
C15_ChangeLineUsesSeriesEndpoints ==
    (/\ Reported /\ series.n >= 1
     /\ firstRecordClose.k = "number" /\ lastRecordClose.k = "number") =>
        LET text == tasks[1].value
            m == Len(text)
            change == lastRecordClose.v - firstRecordClose.v
        IN  /\ text[m - 4] = "\nPrice Change: $"
            /\ text[m - 3] = Fixed2(change)
            /\ text[m - 1] = PercentText(change, firstRecordClose.v)
            /\ (firstRecordClose.v = 18121 /\ lastRecordClose.v = 17608) =>
                   text[m - 3] = "-5.13" /\ text[m - 1] = "-2.83"
            /\ (firstRecordClose.v = 17608 /\ lastRecordClose.v = 18121) =>
                   text[m - 3] = "5.13" /\ text[m - 1] = "2.91"

C15_Witness ==
    /\ Reported /\ series.n = 24
    /\ tasks[1].rows[Len(tasks[1].rows)] = 22
    /\ series.first = Num(18121) /\ series.last = Num(17608)
    /\ outcome.text[Len(outcome.text) - 3] = "-5.13"
    /\ outcome.text[Len(outcome.text) - 1] = "-2.83"

\* C16: the report has a "Price Change:" line if and only if both the first
\* and the last record have a known close; a close that is absent or null
\* gives no change line.
C16_ChangeLineIffBothClosesKnown ==
    Reported =>
        (HasChangeLine(tasks[1].value) <=>
            /\ series.n >= 1
            /\ firstRecordClose.k = "number"
            /\ lastRecordClose.k = "number")

\* C17: when the upstream call succeeds and the payload has zero timestamps
\* or no result, yahoo_stock_history returns the "No historical data found"
\* message, with no table header, no rows and no change line, and throws
\* nothing.
C17_EmptySeriesGivesNoDataMessage ==
    (/\ hpc = "done" /\ call.tool = "yahoo_stock_history" /\ Len(tasks) = 1
     /\ tasks[1].pc = "fulfilled"
     /\ (tasks[1].body.body = "noresult"
            \/ (tasks[1].body.body = "result" /\ tasks[1].body.n = 0))) =>
        /\ outcome.kind = "returned"
        /\ outcome.text = <<"No historical data found for symbol: ", Symbol>>

(***************************************************************************)
(* Properties of the period switch (SpecPeriod).                           *)
(***************************************************************************)
DaysBack(period) ==
    CASE period = "1d" -> 1 [] period = "5d" -> 5 [] period = "1mo" -> 30
      [] period = "3mo" -> 90 [] period = "6mo" -> 180 [] period = "1y" -> 365
      [] period = "2y" -> 2 * 365 [] period = "5y" -> 5 * 365
      [] period = "10y" -> 10 * 365

\* C19: the mapping gives January 1 of the current year for ytd, epoch 0 for
\* max, now minus 1, 5, 30, 90, 180, 365, 2*365, 5*365, 10*365 days for the
\* other enumerated periods, and now minus 30 days for any other string.
C19_PeriodMapping ==
    hpc = "switched" =>
        LET period == call.args.period
            local == call.period2 + call.zone
        IN  /\ period = "ytd" =>
                   /\ \E y \in Years :
                          /\ call.period1 + call.zone = YearStart(y)
                          /\ YearStart(y) <= local /\ local < YearStart(y + 1)
                   /\ call.period1 <= call.period2
                   /\ call.period2 - call.period1 < 366 * 86400
            /\ (period = "ytd" /\ call.period2 = 1709208000 /\ call.zone = 0) =>
                   call.period1 = 1704067200
            /\ period = "max" => call.period1 = 0
            /\ (Includes(validPeriods, period) /\ period \notin {"ytd", "max"}) =>
                   call.period1 = call.period2 - DaysBack(period) * 86400
            /\ ~Includes(validPeriods, period) =>
                   call.period1 = call.period2 - 30 * 86400

C19_Witness ==
    /\ hpc = "switched" /\ call.args.period = "7d"
    /\ call.period2 = 1709208000 /\ call.period1 = 1709208000 - 2592000

(***************************************************************************)
(* Properties of concurrent invocations (SpecConcurrent).                  *)
(***************************************************************************)
\* C20: under any interleaving of concurrently running invocations that
\* suspend only at await points, in every reachable state
\* 0 <= minute count <= minute capacity and 0 <= day count <= day capacity,
\* and the invocations accepted between two resets of a window never exceed
\* that window's capacity.
C20_CountsWithinCapacity ==
    /\ 0 <= requestCount.minute /\ requestCount.minute <= RATE_LIMIT.perMinute
    /\ 0 <= requestCount.day /\ requestCount.day <= RATE_LIMIT.perDay
    /\ win.accepted <= RATE_LIMIT.perMinute
    /\ win.dayAccepted <= RATE_LIMIT.perDay

\* Two accepted invocations are suspended, the minute window is full, and an
\* invocation entering between them was rejected.
C20_Witness ==
    /\ Len(tasks) = 2 /\ tasks[1].pc = "json" /\ tasks[2].pc = "fetching"
    /\ lastCheck.called /\ lastCheck.threw
    /\ requestCount.minute = RATE_LIMIT.perMinute
    /\ win.accepted = RATE_LIMIT.perMinute

(***************************************************************************)
(* Properties of the windows over time (SpecBurst, SpecBudget).            *)
(***************************************************************************)
\* C21: in any time span of at most 60 seconds at most 2 * C invocations are
\* accepted, C the minute capacity: the calls accepted in the 60 000 ms up to
\* any call are at most 2 * C.
C21_BurstAtMostTwiceCapacity ==
    /\ Len(win.recent) <= 2 * RATE_LIMIT.perMinute
    /\ \A i \in 1..Len(win.recent) :
           /\ win.recent[i] <= lastCheck.at
           /\ lastCheck.at - win.recent[i] <= MinuteWindow

\* 2 * C calls accepted within 1 ms, C before and C after a reset of the
\* minute window.
C21_Witness ==
    LET n == Len(win.recent)
        C == RATE_LIMIT.perMinute
    IN  /\ win.recording /\ n = 2 * C
        /\ win.recent[n] - win.recent[1] <= 1
        /\ win.recent[C] < requestCount.lastMinuteReset
        /\ win.recent[C + 1] = requestCount.lastMinuteReset
        /\ requestCount.minute = C

\* C22: for each window independently, a checkRateLimit() call made when now
\* minus the window start exceeds the window length sets the count to 0 and
\* the start to now, accepted or not; an accepted call adds one; nothing else
\* changes the count, and a reset of one window does not reset the other.
C22_CountsChangeOnlyByResetOrAccept ==
    [][LET rc == requestCount
           post == requestCount'
           acc == IF lastCheck'.threw THEN 0 ELSE 1
       IN  IF lastCheck' # lastCheck
           THEN /\ lastCheck'.at = now /\ lastCheck'.pre = rc
                /\ IF now - rc.lastMinuteReset > MinuteWindow
                   THEN post.lastMinuteReset = now /\ post.minute = acc
                   ELSE /\ post.lastMinuteReset = rc.lastMinuteReset
                        /\ post.minute = rc.minute + acc
                /\ IF now - rc.lastDayReset > DayWindow
                   THEN post.lastDayReset = now /\ post.day = acc
                   ELSE /\ post.lastDayReset = rc.lastDayReset
                        /\ post.day = rc.day + acc
           ELSE post = rc
      ]_vars

\* A rejected call that reset the minute window and left the day window as it
\* was: full.
C22_Witness ==
    /\ lastCheck.called /\ lastCheck.threw
    /\ lastCheck.pre.minute > 0 /\ requestCount.minute = 0
    /\ requestCount.lastMinuteReset = lastCheck.at
    /\ lastCheck.pre.lastMinuteReset # lastCheck.at
    /\ requestCount.lastDayReset = lastCheck.pre.lastDayReset
    /\ requestCount.day = lastCheck.pre.day
    /\ requestCount.day = RATE_LIMIT.perDay

(***************************************************************************)
(* Properties of the fan-out and of the budget per invocation (Spec).      *)
(***************************************************************************)
FetchOver(f) == f.pc \in {"returned", "threw"}

\* C23: nothing cancels a member of the yahoo_market_data batch: every
\* member stays in the batch, before and after the Error response of the
\* whole batch, and a member has ended only when its fetchWithRetry returned
\* a response or exhausted its retries; until then it is at a fetch() call
\* or a backoff timer of its own.
C23_NoCancellation ==
    (call.tool = "yahoo_market_data" /\ hpc \in {"awaiting", "done"}
     /\ ~lastCheck.threw) =>
        /\ Len(tasks) = Len(call.args.indices)
        /\ \A i \in 1..Len(tasks) :
               /\ Settled(tasks[i]) => FetchOver(tasks[i].f)
               /\ tasks[i].f.pc = "threw" =>
                      /\ tasks[i].f.retries >= tasks[i].f.maxRetries
                      /\ tasks[i].failure = "ExhaustedRetries"
               /\ tasks[i].f.pc = "returned" => tasks[i].f.status # 0
               /\ ~FetchOver(tasks[i].f) =>
                      /\ tasks[i].pc = "fetching"
                      /\ tasks[i].f.pc \in {"fetch", "sleep"}
                      /\ tasks[i].f.attempts = tasks[i].f.retries + 1

\* The batch returned the error of its first member, and its second member
\* went on to exhaust its retries afterwards.
C23_Witness ==
    /\ hpc = "done" /\ call.tool = "yahoo_market_data" /\ Len(tasks) = 2
    /\ tasks[1].failure = "ApiError" /\ tasks[1].f.attempts = 1
    /\ outcome.text = ErrorText(tasks[1].value)
    /\ tasks[2].pc = "rejected" /\ tasks[2].failure = "ExhaustedRetries"
    /\ tasks[2].f.attempts = DefaultMaxRetries

RECURSIVE Attempts(_)
Attempts(ts) == IF ts = <<>> THEN 0 ELSE Head(ts).f.attempts + Attempts(Tail(ts))

\* C24: each invocation calls checkRateLimit() exactly once, before any HTTP
\* attempt; a rejected invocation makes no attempt; an accepted one takes
\* exactly one unit of each window however many attempts it makes (up to
\* k * maxRetries for k indices).
C24_OneUnitPerInvocation ==
    /\ win.calls = call.seq
    /\ hpc \in {"awaiting", "done"} =>
           /\ lastCheck.called
           /\ lastCheck.threw =>
                  /\ tasks = <<>>
                  /\ requestCount.minute = MinuteSeen
                  /\ requestCount.day = DaySeen
           /\ ~lastCheck.threw =>
                  /\ requestCount.minute = MinuteSeen + 1
                  /\ requestCount.day = DaySeen + 1
                  /\ requestCount.minute = win.accepted
                  /\ Attempts(tasks) <= Len(tasks) * DefaultMaxRetries

\* One accepted yahoo_market_data invocation of two indices made
\* 2 * maxRetries HTTP attempts for its one unit.
C24_Witness ==
    /\ hpc = "done" /\ call.tool = "yahoo_market_data" /\ Len(tasks) = 2
    /\ Attempts(tasks) = 2 * DefaultMaxRetries
    /\ ~lastCheck.threw
    /\ requestCount.minute = lastCheck.pre.minute + 1
    /\ requestCount.day = lastCheck.pre.day + 1

(***************************************************************************)
(* Termination of fetchWithRetry (SpecRetry).                              *)
(***************************************************************************)
run == tasks[1].f

\* C25: for every maxRetries >= 0 and every sequence of transport outcomes,
\* when each transport call and each timer completes, fetchWithRetry
\* eventually returns a response or throws, after at most maxRetries
\* attempts; with maxRetries = 0 it makes no attempt and throws
\* "Maximum retries exceeded".
C25_FetchWithRetryTerminates ==
    /\ <>FetchOver(run)
    /\ [](run.attempts <= run.maxRetries)
    /\ []((run.maxRetries = 0 /\ run.pc # "start") =>
             /\ run.pc = "threw" /\ run.attempts = 0
             /\ run.error = MaxRetriesMessage)

C25_Witness ==
    /\ Len(tasks) = 1 /\ call.tool = "none"
    /\ run.maxRetries = 0 /\ run.pc = "threw" /\ run.attempts = 0
    /\ run.error = MaxRetriesMessage /\ run.waits = <<>>
====
